---- MODULE Spec2Model ----
(***************************************************************************)
(* The swap registry of peerswap (swap/service.go): the map of active      *)
(* swaps, its admission rule, the dispatch of peer messages, chain,        *)
(* payment and timeout callbacks to the per-swap state machines, and the   *)
(* removal of finished swaps.  Every entry point runs on the thread of the *)
(* collaborator that calls it; a thread's steps are the places where the   *)
(* entry point touches memory that other threads see: the registry map     *)
(* (under the registry's RWMutex), a machine's SwapData (unsynchronised    *)
(* outside SendEvent) and a machine's SendEvent mutex.                     *)
(*                                                                         *)
(* The state machine engine itself (SendEvent, Recover, the transition     *)
(* tables, SwapData's constructors) is not part of swap/service.go; it is  *)
(* modelled from sections 3 and 4.1 of the specification.                  *)
(***************************************************************************)
EXTENDS Integers, Sequences, FiniteSets, TLC

\* ------------------------------------------------------------------ bounds

\* Machine objects the run may allocate (every new...FSM / ...FromStore call
\* takes one; objects are never reused).
MaxMachines == 4

\* Entry-point calls the collaborators make in one run, RecoverSwaps aside.
MaxCalls == 2

\* RecoverSwaps calls in one run (the daemon calls it when it starts).
MaxRecovers == 1

\* ------------------------------------------------------------- value sets

Threads  == {"t1", "t2"}
\* the order ListAll returns the stored swaps in
SwapIdSeq == <<"s1", "s2">>
SwapIds  == {SwapIdSeq[i] : i \in DOMAIN SwapIdSeq}
Peers    == {"A", "B"}
Channels == {"c1", "c2"}
TxHexes  == {"tx1"}
\* the swap the peers' messages and the callbacks name
NamedIds == {SwapIdSeq[1]}
\* the peers the user opens swaps with
UserPeers == {"A"}
\* the chain names SwapOut and SwapIn know, and one they do not
btc_chain   == "btc"
l_btc_chain == "l-btc"
Chains      == {btc_chain, l_btc_chain, "doge"}
\* the chain the user names
UserChains  == {btc_chain}

Machines == 1 .. MaxMachines
\* the nil *SwapStateMachine / a missing map entry
NoSwap   == 0
\* an unlocked machine mutex
Free     == "free"
\* the registry's RWMutex with no holder, and with a writer
RWUnlocked == "unlocked"
RWLocked   == "locked"

\* error values (nil is the Go nil error)
nil                                  == "nil"
ErrSwapDoesNotExist                  == "swap does not exist"
ErrEventRejected                     == "event rejected"
ErrActiveSwapOnChannel               == "already has an active swap on channel"
ErrReceivedMessageFromUnexpectedPeer == "received a message from an unexpected peer"
ErrFatal                             == "storage write failure"
ErrSendFailed                        == "send failure"
ErrMarshal                           == "marshal failure"
ErrPayloadTooLarge                   == "Payload is unexpectedly large"
ErrUnknownSwapMessageType            == "message type unknown"
ErrUnmarshal                         == "json unmarshal failure"

SWAPTYPE_IN       == "SWAPTYPE_IN"
SWAPTYPE_OUT      == "SWAPTYPE_OUT"
SWAPROLE_SENDER   == "SWAPROLE_SENDER"
SWAPROLE_RECEIVER == "SWAPROLE_RECEIVER"

\* ------------------------------------------------- the state machine engine

State_Created              == "Created"
State_AwaitingAgreement    == "AwaitingAgreement"
State_AwaitingOpeningTx    == "AwaitingOpeningTx"
State_AwaitingConfirmation == "AwaitingConfirmation"
State_AwaitingClaim        == "AwaitingClaim"
State_ClaimedPreimage      == "ClaimedPreimage"
State_ClaimedCsv           == "ClaimedCsv"
State_ClaimedCoop          == "ClaimedCoop"
State_SendCancel           == "SendCancel"
State_Done                 == "Done"
State_Canceled             == "Canceled"
NoTransition               == "none"

TerminalStates == {State_Done, State_Canceled}

Event_OnSwapOutStarted                 == "Event_OnSwapOutStarted"
Event_SwapInSender_OnSwapInRequested   == "Event_SwapInSender_OnSwapInRequested"
Event_SwapInReceiver_OnRequestReceived == "Event_SwapInReceiver_OnRequestReceived"
Event_OnSwapOutRequestReceived         == "Event_OnSwapOutRequestReceived"
Event_OnFeeInvoiceReceived             == "Event_OnFeeInvoiceReceived"
Event_SwapInSender_OnAgreementReceived == "Event_SwapInSender_OnAgreementReceived"
Event_OnFeeInvoicePaid                 == "Event_OnFeeInvoicePaid"
Event_OnTxOpenedMessage                == "Event_OnTxOpenedMessage"
Event_OnTxConfirmed                    == "Event_OnTxConfirmed"
Event_OnClaimInvoicePaid               == "Event_OnClaimInvoicePaid"
Event_OnCsvPassed                      == "Event_OnCsvPassed"
Event_OnCoopCloseReceived              == "Event_OnCoopCloseReceived"
Event_OnCancelReceived                 == "Event_OnCancelReceived"
Event_OnInvalid_Message                == "Event_OnInvalid_Message"
Event_OnTimeout                        == "Event_OnTimeout"
Event_ActionSucceeded                  == "Event_ActionSucceeded"
Event_ActionFailed                     == "Event_ActionFailed"
Event_NoOp                             == "Event_NoOp"
Event_Done                             == "Event_Done"

StartEvents == {Event_OnSwapOutStarted, Event_SwapInSender_OnSwapInRequested,
                Event_SwapInReceiver_OnRequestReceived, Event_OnSwapOutRequestReceived}
AgreementEvents == {Event_OnFeeInvoiceReceived, Event_SwapInSender_OnAgreementReceived,
                    Event_OnFeeInvoicePaid}
CancelEvents == {Event_OnCancelReceived, Event_OnInvalid_Message}

\* transitions[state][event]: the skeleton shared by the four role machines.
\*   Created -> AwaitingAgreement -> AwaitingOpeningTx -> AwaitingConfirmation
\*           -> AwaitingClaim -> ClaimedPreimage -> Done
\* with the cancel, timeout, CSV and coop-close branches.
Transition(state, event) ==
    CASE state = State_Created /\ event \in StartEvents -> State_AwaitingAgreement
      [] state = State_AwaitingAgreement /\ event \in AgreementEvents -> State_AwaitingOpeningTx
      [] state = State_AwaitingOpeningTx /\ event = Event_OnTxOpenedMessage -> State_AwaitingConfirmation
      [] state = State_AwaitingConfirmation /\ event = Event_OnTxConfirmed -> State_AwaitingClaim
      [] state = State_AwaitingClaim /\ event = Event_OnClaimInvoicePaid -> State_ClaimedPreimage
      [] state = State_AwaitingClaim /\ event = Event_OnCsvPassed -> State_ClaimedCsv
      [] state \in {State_AwaitingConfirmation, State_AwaitingClaim}
            /\ event = Event_OnCoopCloseReceived -> State_ClaimedCoop
      [] state \in {State_Created, State_AwaitingAgreement, State_AwaitingOpeningTx,
                    State_AwaitingConfirmation, State_SendCancel}
            /\ event \in CancelEvents -> State_SendCancel
      [] state \in {State_AwaitingAgreement, State_AwaitingOpeningTx}
            /\ event = Event_OnTimeout -> State_SendCancel
      [] state \in {State_ClaimedPreimage, State_ClaimedCsv, State_ClaimedCoop}
            /\ event = Event_ActionSucceeded -> State_Done
      [] state = State_SendCancel /\ event = Event_ActionSucceeded -> State_Canceled
      [] OTHER -> NoTransition

\* The event a state's action returns.  sendFails: the messenger refuses the
\* message of SendCancelAction (a transport failure).
ActionEvent(state, sendFails) ==
    CASE state \in TerminalStates -> Event_Done
      [] state = State_SendCancel -> IF sendFails THEN Event_ActionFailed ELSE Event_ActionSucceeded
      [] state \in {State_ClaimedPreimage, State_ClaimedCsv, State_ClaimedCoop} -> Event_ActionSucceeded
      [] OTHER -> Event_NoOp

\* The hops of one SendEvent call from `state` on `event`: the state the
\* machine rests in, whether it reports done, and the error.
RECURSIVE Hops(_, _, _)
Hops(state, event, sendFails) ==
    LET next == Transition(state, event)
        ev   == ActionEvent(next, sendFails)
    IN  IF next = NoTransition
          THEN [state |-> state, done |-> FALSE, err |-> ErrEventRejected]
        ELSE IF ev = Event_Done
          THEN [state |-> next, done |-> TRUE, err |-> nil]
        ELSE IF ev = Event_NoOp
          THEN [state |-> next, done |-> FALSE, err |-> nil]
        ELSE IF ev = Event_ActionFailed
          THEN [state |-> next, done |-> FALSE, err |-> nil]
        ELSE Hops(next, ev, sendFails)

\* The outcomes of the collaborators during one SendEvent call.
Outcomes == {"ok", "sendFails", "storeFails"}

\* SendEvent(event) on a machine in `state`: a storage write failure is fatal
\* and is returned before the machine moves.
SendEventResult(state, event, outcome) ==
    IF outcome = "storeFails" /\ Transition(state, event) # NoTransition
      THEN [state |-> state, done |-> FALSE, err |-> ErrFatal]
      ELSE Hops(state, event, outcome = "sendFails")

\* Recover() taking the swap one stage further each time it runs
RecoverResult_NextStage(state, outcome) ==
    CASE state = State_AwaitingAgreement ->
            [state |-> State_AwaitingOpeningTx, done |-> FALSE, err |-> nil]
      [] state = State_AwaitingOpeningTx ->
            [state |-> State_AwaitingConfirmation, done |-> FALSE, err |-> nil]
      [] OTHER -> [state |-> state, done |-> state \in TerminalStates, err |-> nil]

\* Recover(): re-issue the action of the persisted state and follow its events.
RecoverResult(state, outcome) ==
    LET ev == ActionEvent(state, outcome = "sendFails")
    IN  IF outcome = "storeFails"
          THEN [state |-> state, done |-> FALSE, err |-> ErrFatal]
        ELSE IF ev = Event_Done
          THEN [state |-> state, done |-> TRUE, err |-> nil]
        ELSE IF ev \in {Event_NoOp, Event_ActionFailed}
          THEN [state |-> state, done |-> FALSE, err |-> nil]
        ELSE Hops(state, ev, outcome = "sendFails")

\* -------------------------------------------------------------- SwapData

\* A stage envelope is <<>> (nil) or <<message>>.
NoMsg == <<>>

\* &SwapData{}: the data of a machine fresh from its constructor.
EmptyData ==
    [PeerNodeId |-> "", Type |-> "",
     SwapOutRequest |-> NoMsg, SwapInRequest |-> NoMsg,
     SwapOutAgreement |-> NoMsg, SwapInAgreement |-> NoMsg,
     OpeningTxBroadcasted |-> NoMsg, Cancel |-> NoMsg, CoopClose |-> NoMsg,
     OpeningTxHex |-> "", CancelMessage |-> "", NextMessageType |-> "",
     LastErr |-> "", toCancel |-> FALSE]

\* NewSwapData(swapId, swapType, initiator, peer)
NewSwapData(swapType, peer) ==
    [EmptyData EXCEPT !.PeerNodeId = peer, !.Type = swapType]

\* NewSwapDataFromRequest(swapId, senderNodeId, swapType)
NewSwapDataFromRequest(peer, swapType) ==
    [EmptyData EXCEPT !.PeerNodeId = peer, !.Type = swapType]

\* liquidWallet.GetAsset() and bitcoinWallet.GetNetwork()
GetAsset   == "asset-hex"
GetNetwork == "mainnet"

\* A SwapOutRequestMessage / SwapInRequestMessage.
Request(swapId, asset, network, scid) ==
    [SwapId |-> swapId, Asset |-> asset, Network |-> network, Scid |-> scid]

\* `if chain == l_btc_chain { elementsAsset = liquidWallet.GetAsset() } else if
\* chain == btc_chain { bitcoinNetwork = bitcoinWallet.GetNetwork() }` and the
\* request built from the two strings
RequestFor(swapId, chain, scid) ==
    Request(swapId,
            IF chain = l_btc_chain THEN GetAsset ELSE "",
            IF chain # l_btc_chain /\ chain = btc_chain THEN GetNetwork ELSE "",
            scid)

\* SwapData.GetScid(): the scid of the stored request, "" without one.
GetScid(d) ==
    IF d.SwapInRequest # NoMsg THEN d.SwapInRequest[1].Scid
    ELSE IF d.SwapOutRequest # NoMsg THEN d.SwapOutRequest[1].Scid
    ELSE ""

\* ------------------------------------------------------------------ state

VARIABLES
    activeSwaps,   \* SwapService.activeSwaps: swap id -> machine object or NoSwap
    nAlloc,        \* machine objects allocated so far: 1 .. nAlloc
    Id,            \* SwapStateMachine.Id of every machine object
    Type,          \* SwapStateMachine.Type
    Role,          \* SwapStateMachine.Role
    States,        \* SwapStateMachine.States: the role machine's transition table
    Maker,         \* history: swap id -> the entry points that created a swap of that id
    Current,       \* SwapStateMachine.Current
    Data,          \* SwapStateMachine.Data
    mutex,         \* the SendEvent mutex of every machine: Free or its holder
    store,         \* swapStore: swap id -> <<>> or <<persisted machine>>
    calls,         \* entry-point calls made so far, RecoverSwaps aside
    recovers,      \* RecoverSwaps calls made so far
    rw,            \* SwapService's embedded sync.RWMutex
    BitcoinEnabled,\* SwapService.BitcoinEnabled
    LiquidEnabled, \* SwapService.LiquidEnabled
    outbox,        \* the messages messenger.SendMessage sent for the service itself
    snap,          \* history: what the latest RecoverSwaps call found when it was made
    th             \* every thread's call frame

vars == <<activeSwaps, nAlloc, Id, Type, Role, States, Maker, Current, Data, mutex, store,
          calls, recovers, rw, BitcoinEnabled, LiquidEnabled, outbox, snap, th>>

\* the call counters
budget == <<calls, recovers>>

\* the chains the service was constructed with
config == <<BitcoinEnabled, LiquidEnabled>>

\* what lies outside the registry and the machines
outer == <<budget, config, outbox, snap>>

\* what a step on a machine leaves alone
rest == <<outer, rw>>

\* the fields a constructor sets once, and who called it
ident == <<nAlloc, Id, Type, Role, States, Maker>>

\* The collaborators' answers during one RecoverSwaps run: the store's to
\* ListAll, and the messenger's and the store's to the Recover() of each stored
\* swap; here every answer is "ok".
AllOk == [k \in SwapIds \cup {"ListAll"} |-> "ok"]

\* A thread's frame: the entry point it runs (op), its position (pc), the
\* arguments of the call, the local variable `swap` (m), and, once the call has
\* returned, the value it returned (ret).  arg is the message type of
\* OnMessageReceived, the txHex of OnTxConfirmed, the label of OnPayment, the
\* chain of SwapOut and SwapIn; len is len(payload) of OnMessageReceived, desc
\* the description of OnPayment, character by character.
\* old is history: the SwapData a chain callback found when it looked the swap
\* up, kept to state what the callback leaves unchanged.  env is what the
\* messenger and the store answer during a RecoverSwaps run.
IdleFrame ==
    [op |-> "", pc |-> "idle", id |-> "", peer |-> "", scid |-> "", arg |-> "",
     valid |-> TRUE, m |-> NoSwap, ret |-> "", swaps |-> <<>>, k |-> 0, old |-> <<>>,
     env |-> AllOk, len |-> 0, desc |-> <<>>]

\* The persisted copy of a swap: the machine's Type, Role, Current and Data.
StoredSwap(type, role, state, data) ==
    <<[Type |-> type, Role |-> role, Current |-> state, Data |-> data]>>

\* What an earlier run of the daemon left of a swap out it started with peer
\* "A" on channel "c1": the data after the request was sent, after the
\* agreement and the opening-tx message arrived, after the confirmation, and
\* after a cancel whose message could not be sent.
RequestedData ==
    [NewSwapData(SWAPTYPE_OUT, "A") EXCEPT
        !.SwapOutRequest = <<RequestFor(SwapIdSeq[1], btc_chain, "c1")>>,
        !.NextMessageType = "swapoutrequest", !.toCancel = TRUE]
OpenedData ==
    [RequestedData EXCEPT
        !.SwapOutAgreement = <<[SwapId |-> SwapIdSeq[1]]>>,
        !.OpeningTxBroadcasted = <<[SwapId |-> SwapIdSeq[1]]>>, !.toCancel = FALSE]
ConfirmedData == [OpenedData EXCEPT !.OpeningTxHex = "tx1"]
CancelingData ==
    [RequestedData EXCEPT
        !.Cancel = <<[SwapId |-> SwapIdSeq[1]]>>, !.LastErr = ErrSendFailed,
        !.toCancel = FALSE]

StoredSwaps ==
    {StoredSwap(SWAPTYPE_OUT, SWAPROLE_SENDER, State_AwaitingAgreement, RequestedData),
     StoredSwap(SWAPTYPE_OUT, SWAPROLE_SENDER, State_AwaitingConfirmation, OpenedData),
     StoredSwap(SWAPTYPE_OUT, SWAPROLE_SENDER, State_SendCancel, CancelingData),
     StoredSwap(SWAPTYPE_OUT, SWAPROLE_SENDER, State_Canceled, CancelingData)}

\* The store the service is constructed over: empty, or holding one swap of
\* an earlier run.
EmptyStore == [i \in SwapIds |-> <<>>]

InitStores ==
    {EmptyStore}
    \cup {[i \in SwapIds |-> IF i = SwapIdSeq[1] THEN p ELSE <<>>] : p \in StoredSwaps}

\* no RecoverSwaps call made yet
NoSnap == [env |-> AllOk, again |-> AllOk, store |-> <<>>, active |-> {}]

InitWith(stored, bitcoin, liquid) ==
    /\ store = stored
    /\ activeSwaps = [i \in SwapIds |-> NoSwap]
    /\ nAlloc = 0
    /\ Id = [m \in Machines |-> ""]
    /\ Type = [m \in Machines |-> ""]
    /\ Role = [m \in Machines |-> ""]
    /\ States = [m \in Machines |-> ""]
    /\ Maker = [i \in SwapIds |-> IF store[i] = <<>> THEN {} ELSE {"SwapOut"}]
    /\ Current = [m \in Machines |-> State_Created]
    /\ Data = [m \in Machines |-> EmptyData]
    /\ mutex = [m \in Machines |-> Free]
    /\ calls = 0
    /\ recovers = 0
    /\ rw = RWUnlocked
    /\ BitcoinEnabled = bitcoin
    /\ LiquidEnabled = liquid
    /\ outbox = {}
    /\ snap = NoSnap
    /\ th = [t \in Threads |-> IdleFrame]

\* the service constructed with both chains enabled, over a store that is
\* empty or holds one swap of an earlier run
Init == \E stored \in InitStores : InitWith(stored, TRUE, TRUE)

\* ----------------------------------------------------- registry primitives

\* s.RLock() / s.Lock() at the head of a registry primitive: the caller goes
\* on when no writer holds the lock.  The primitives only read or write the
\* map between Lock and the deferred Unlock, so each is one step.
RegistryUnlocked == rw = RWUnlocked

\* GetActiveSwap(swapId): the machine, or NoSwap for ErrSwapDoesNotExist.
GetActiveSwap_ZeroValue(swapId) ==
    IF activeSwaps[swapId] # NoSwap THEN activeSwaps[swapId] ELSE nAlloc
GetActiveSwap(swapId) == activeSwaps[swapId]

\* AddActiveSwap(swapId, swap): s.Lock(); defer s.Unlock();
\* s.activeSwaps[swapId] = swap
AddActiveSwap(swapId, swap) ==
    /\ RegistryUnlocked
    /\ activeSwaps' = [activeSwaps EXCEPT ![swapId] = swap]
    /\ rw' = RWUnlocked

\* RemoveActiveSwap deleting a key the map never holds
RemoveActiveSwap_WrongKey(swapId) ==
    /\ RegistryUnlocked
    /\ activeSwaps' = [i \in SwapIds |-> IF i = "" THEN NoSwap ELSE activeSwaps[i]]
    /\ rw' = RWUnlocked

\* RemoveActiveSwap returning with the registry still locked
RemoveActiveSwap_NoUnlock(swapId) ==
    /\ RegistryUnlocked
    /\ activeSwaps' = [activeSwaps EXCEPT ![swapId] = NoSwap]
    /\ rw' = RWLocked

\* RemoveActiveSwap(swapId): s.Lock(); defer s.Unlock();
\* delete(s.activeSwaps, swapId)
RemoveActiveSwap(swapId) ==
    /\ RegistryUnlocked
    /\ activeSwaps' = [activeSwaps EXCEPT ![swapId] = NoSwap]
    /\ rw' = RWUnlocked

\* hasActiveSwapOnChannel with the map key compared in place of the scid
hasActiveSwapOnChannel_ByKey(channelId) ==
    \E i \in SwapIds :
        /\ activeSwaps[i] # NoSwap
        /\ i = channelId

\* hasActiveSwapOnChannel(channelId)
hasActiveSwapOnChannel(channelId) ==
    \E i \in SwapIds :
        /\ activeSwaps[i] # NoSwap
        /\ GetScid(Data[activeSwaps[i]]) = channelId

\* isMessageSenderExpectedPeer comparing the peer of the swap with itself
isMessageSenderExpectedPeer_SelfCompared(senderId, swapId) ==
    Data[GetActiveSwap(swapId)].PeerNodeId = Data[GetActiveSwap(swapId)].PeerNodeId

\* isMessageSenderExpectedPeer(senderId, swapId), for a swap that is active
isMessageSenderExpectedPeer(senderId, swapId) ==
    Data[GetActiveSwap(swapId)].PeerNodeId = senderId

\* -------------------------------------------------------------- the calls

MessageTypes == {"swapoutrequest", "swapinrequest", "swapoutagreement",
                 "swapinagreement", "openingtxbroadcasted", "canceled",
                 "coopclose", "unknown"}
\* what OnMessageReceived refuses before it dispatches: a payload over
\* 100*1024 bytes, a type string that is no message type, a payload that is
\* no JSON of the type
Refusals == {"badtype", "badjson"}
RequestTypes == {"swapoutrequest", "swapinrequest"}

\* `const PaymentLabelSeparator = "_"` and the labels of the two invoices
PaymentLabelSeparator == "_"
Fee   == <<"f", "e", "e">>
Claim == <<"c", "l", "a", "i", "m">>

\* swapId.String(): the text of a swap id
Digits == <<"1", "2">>
HexOf(swapId) == <<"s", Digits[CHOOSE k \in DOMAIN SwapIdSeq : SwapIdSeq[k] = swapId]>>

\* "<label>_<swapid>"
Described(label, swapId) == label \o <<PaymentLabelSeparator>> \o HexOf(swapId)

\* the descriptions of the invoices paid: a fee invoice, a claim invoice and
\* an invoice of another application
PaymentDescriptions ==
    {Described(l, i) : l \in {Fee, Claim, <<"t", "i", "p">>}, i \in NamedIds}

CallFrame(op) == [IdleFrame EXCEPT !.op = op, !.pc = "start"]

\* what the collaborators may answer during a run that finds at most the
\* first swap in the store
RecoverEnvs ==
    {[AllOk EXCEPT ![SwapIdSeq[1]] = o] : o \in Outcomes}
    \cup {[AllOk EXCEPT !["ListAll"] = "storeFails"]}

\* SwapOut(peer, chain, channelId, ...) and SwapIn(...) as the user calls them
UserFrames(chains) ==
    {[CallFrame(op) EXCEPT !.peer = p, !.arg = ch, !.scid = c] :
        op \in {"SwapOut", "SwapIn"}, p \in UserPeers, ch \in chains, c \in Channels}

\* The calls the collaborators make: the user (SwapOut, SwapIn,
\* ResendLastMessage, RecoverSwaps), the messenger (OnMessageReceived), the
\* chain watchers, the lightning client and the timeout service.  A message
\* carries its swap id, a request its scid too; valid says whether the
\* message's Validate() accepts it (CancelMessage and unknown types have none).
EntryFrames ==
         UserFrames(UserChains)
    \cup {[CallFrame("OnMessageReceived") EXCEPT
              !.arg = ty, !.peer = p, !.id = i, !.scid = c, !.valid = v] :
             ty \in RequestTypes, p \in Peers, i \in NamedIds, c \in Channels,
             v \in BOOLEAN}
    \cup {[CallFrame("OnMessageReceived") EXCEPT
              !.arg = ty, !.peer = p, !.id = i, !.valid = v] :
             ty \in {"swapoutagreement", "swapinagreement", "openingtxbroadcasted",
                     "coopclose"},
             p \in Peers, i \in NamedIds, v \in BOOLEAN}
    \cup {[CallFrame("OnMessageReceived") EXCEPT !.arg = "canceled", !.peer = p, !.id = i] :
             p \in Peers, i \in NamedIds}
    \cup {[CallFrame("OnMessageReceived") EXCEPT !.arg = a] :
             a \in {"unknown"} \cup Refusals}
    \cup {[CallFrame("OnMessageReceived") EXCEPT !.arg = "unknown", !.len = 100 * 1024 + 1]}
    \cup {[CallFrame("OnTxConfirmed") EXCEPT !.id = i, !.arg = tx] :
             i \in NamedIds, tx \in TxHexes}
    \cup {[CallFrame(op) EXCEPT !.id = i] :
             op \in {"OnCsvPassed", "SenderOnTxConfirmed", "TimeoutCallback",
                     "ResendLastMessage"},
             i \in NamedIds}
    \cup {[CallFrame("OnPayment") EXCEPT !.desc = d] : d \in PaymentDescriptions}
    \cup {[CallFrame("RecoverSwaps") EXCEPT !.env = e] : e \in RecoverEnvs}

\* ------------------------------------------------------------ frame steps

SetFrame(t, f) == th' = [th EXCEPT ![t] = f]
Goto(t, pc) == SetFrame(t, [th[t] EXCEPT !.pc = pc])
\* the entry point returns r to its caller; the thread is free again
Ret(t, r) == SetFrame(t, [IdleFrame EXCEPT !.ret = r])
At(t, op, pc) == th[t].op = op /\ th[t].pc = pc

\* no call is in flight
AllReturned == \A t \in Threads : th[t].pc = "idle"

\* A collaborator calls an entry point on its idle thread.  The daemon calls
\* RecoverSwaps when it starts, before it serves any other call.
Call(t) ==
    /\ th[t].pc = "idle"
    /\ \A u \in Threads : th[u].op # "RecoverSwaps"
    /\ \E f \in EntryFrames :
         /\ SetFrame(t, f)
         /\ IF f.op = "RecoverSwaps"
              THEN recovers < MaxRecovers /\ calls = 0 /\ recovers' = recovers + 1 /\ calls' = calls
              ELSE calls < MaxCalls /\ calls' = calls + 1 /\ recovers' = recovers
    /\ UNCHANGED <<activeSwaps, ident, Current, Data, mutex, store, config, outbox, snap, rw>>

\* `swap, err := s.GetActiveSwap(id); if err != nil { return err }`: on
\* success the call goes on at pc with the machine in its local `swap`.
Lookup(t, pc) ==
    /\ RegistryUnlocked
    /\ IF GetActiveSwap(th[t].id) = NoSwap
         THEN Ret(t, ErrSwapDoesNotExist)
         ELSE SetFrame(t, [th[t] EXCEPT !.pc = pc, !.m = GetActiveSwap(th[t].id)])

\* Lookup, remembering the data found
LookupData(t, pc) ==
    /\ RegistryUnlocked
    /\ IF GetActiveSwap(th[t].id) = NoSwap
         THEN Ret(t, ErrSwapDoesNotExist)
         ELSE SetFrame(t, [th[t] EXCEPT !.pc = pc, !.m = GetActiveSwap(th[t].id),
                                        !.old = <<Data[GetActiveSwap(th[t].id)]>>])

\* a step that only reads the registry
ReadOnly == UNCHANGED <<activeSwaps, ident, Current, Data, mutex, store, rest>>

\* a swap id no machine of this node carries yet (NewSwapId() is random)
FreshIds == SwapIds \ ({Id[m] : m \in 1 .. nAlloc} \cup {i \in SwapIds : store[i] # <<>>})

\* the transition tables of the four role machines
SwapInSenderStates    == "getSwapInSenderStates"
SwapInReceiverStates  == "getSwapInReceiverStates"
SwapOutSenderStates   == "getSwapOutSenderStates"
SwapOutReceiverStates == "getSwapOutReceiverStates"

\* new...FSM / ...FromStore: the next machine object with its type, role and
\* transition table; makers names the entry point when the call creates the
\* swap (RecoverSwaps creates none).
NewFSM(m, swapId, type, role, states, makers) ==
    /\ nAlloc' = m
    /\ Id' = [Id EXCEPT ![m] = swapId]
    /\ Type' = [Type EXCEPT ![m] = type]
    /\ Role' = [Role EXCEPT ![m] = role]
    /\ States' = [States EXCEPT ![m] = states]
    /\ Maker' = [Maker EXCEPT ![swapId] = @ \cup makers]

\* The persisted copy of machine m after a transition.
Persisted(m, state, data) == StoredSwap(Type[m], Role[m], state, data)

\* SendEvent's mutex.Lock(): the thread waits until the machine is unlocked.
SendEvent_Lock(t) ==
    /\ th[t].pc = "lock"
    /\ mutex[th[t].m] = Free
    /\ mutex' = [mutex EXCEPT ![th[t].m] = t]
    /\ Goto(t, "run")
    /\ UNCHANGED <<activeSwaps, ident, Current, Data, store, rest>>

\* The timeout window is open in the agreement and opening stages.
TimedStates == {State_AwaitingAgreement, State_AwaitingOpeningTx}

\* The body of SendEvent / Recover under the mutex, with result r: the machine
\* moves to r.state, the actions arm or disarm the timeout and record a send
\* failure, the swap is persisted, and the mutex is released.
ApplyResult(t, r) ==
    LET m == th[t].m
        moved == r.err = nil
        d == IF moved
               THEN [Data[m] EXCEPT !.toCancel = r.state \in TimedStates,
                                    !.LastErr = IF r.state = State_SendCancel
                                                  THEN ErrSendFailed ELSE @]
               ELSE Data[m]
    IN  /\ mutex[m] = t
        /\ Current' = [Current EXCEPT ![m] = r.state]
        /\ Data' = [Data EXCEPT ![m] = d]
        /\ store' = IF moved THEN [store EXCEPT ![Id[m]] = Persisted(m, r.state, d)]
                             ELSE store
        /\ mutex' = [mutex EXCEPT ![m] = Free]
        /\ UNCHANGED <<ident, rest>>

\* a write to the SwapData of the frame's machine, outside SendEvent
WriteData(t, d) ==
    /\ Data' = [Data EXCEPT ![th[t].m] = d]
    /\ UNCHANGED <<activeSwaps, ident, Current, mutex, store, rest>>

\* `if done { s.RemoveActiveSwap(swap.Id) }; return nil` after a SendEvent
\* that reported done.
RemoveDone(t) ==
    /\ th[t].pc = "remove"
    /\ RemoveActiveSwap(Id[th[t].m])
    /\ Ret(t, nil)
    /\ UNCHANGED <<ident, Current, Data, mutex, store, outer>>

\* `done, err := swap.SendEvent(event, nil); if err != nil { return err };
\* if done { remove }; return nil`
SendEventThen(t, event) ==
    \E outcome \in Outcomes :
        LET r == SendEventResult(Current[th[t].m], event, outcome)
        IN  /\ ApplyResult(t, r)
            /\ IF r.err # nil THEN Ret(t, r.err)
               ELSE IF r.done THEN Goto(t, "remove")
               ELSE Ret(t, nil)
            /\ UNCHANGED activeSwaps

\* the same, swallowing ErrEventRejected
SendEventSwallow(t, event) ==
    \E outcome \in Outcomes :
        LET r == SendEventResult(Current[th[t].m], event, outcome)
        IN  /\ ApplyResult(t, r)
            /\ IF r.err = ErrEventRejected THEN Ret(t, nil)
               ELSE IF r.err # nil THEN Ret(t, r.err)
               ELSE IF r.done THEN Goto(t, "remove")
               ELSE Ret(t, nil)
            /\ UNCHANGED activeSwaps

\* --------------------------------------------------------------- SwapOut

\* The admission check and, when it passes, newSwapOutSenderFSM.
SwapOut_Start(t) ==
    /\ At(t, "SwapOut", "start")
    /\ RegistryUnlocked
    /\ IF hasActiveSwapOnChannel(th[t].scid)
         THEN /\ Ret(t, ErrActiveSwapOnChannel)
              /\ UNCHANGED ident
         ELSE /\ nAlloc < MaxMachines
              /\ \E swapId \in FreshIds :
                   /\ NewFSM(nAlloc + 1, swapId, SWAPTYPE_OUT, SWAPROLE_SENDER,
                             SwapOutSenderStates, {"SwapOut"})
                   /\ SetFrame(t, [th[t] EXCEPT !.pc = "add", !.id = swapId,
                                                !.m = nAlloc + 1])
    /\ UNCHANGED <<activeSwaps, Current, Data, mutex, store, rest>>

SwapOut_Add(t) ==
    /\ At(t, "SwapOut", "add")
    /\ AddActiveSwap(Id[th[t].m], th[t].m)
    /\ Goto(t, "data")
    /\ UNCHANGED <<ident, Current, Data, mutex, store, outer>>

\* swap.Data = NewSwapData(...); swap.Data.SwapOutRequest = ...; then
\* MarshalPeerswapMessage, whose error is returned with the swap registered,
\* and NextMessage, NextMessageType
SwapOut_Data(t) ==
    /\ At(t, "SwapOut", "data")
    /\ LET d == [NewSwapData(SWAPTYPE_OUT, th[t].peer) EXCEPT
                    !.SwapOutRequest = <<RequestFor(th[t].id, th[t].arg, th[t].scid)>>]
       IN  \/ /\ WriteData(t, [d EXCEPT !.NextMessageType = "swapoutrequest"])
              /\ Goto(t, "lock")
           \/ /\ WriteData(t, d)
              /\ Ret(t, ErrMarshal)

SwapOut_SendEvent(t) ==
    /\ At(t, "SwapOut", "run")
    /\ SendEventThen(t, Event_OnSwapOutStarted)

SwapOut(t) ==
    \/ SwapOut_Start(t)
    \/ SwapOut_Add(t)
    \/ SwapOut_Data(t)
    \/ SwapOut_SendEvent(t)

\* ---------------------------------------------------------------- SwapIn

SwapIn_Start(t) ==
    /\ At(t, "SwapIn", "start")
    /\ RegistryUnlocked
    /\ IF hasActiveSwapOnChannel(th[t].scid)
         THEN /\ Ret(t, ErrActiveSwapOnChannel)
              /\ UNCHANGED ident
         ELSE /\ nAlloc < MaxMachines
              /\ \E swapId \in FreshIds :
                   /\ NewFSM(nAlloc + 1, swapId, SWAPTYPE_IN, SWAPROLE_SENDER,
                             SwapInSenderStates, {"SwapIn"})
                   /\ SetFrame(t, [th[t] EXCEPT !.pc = "add", !.id = swapId,
                                                !.m = nAlloc + 1])
    /\ UNCHANGED <<activeSwaps, Current, Data, mutex, store, rest>>

SwapIn_Add(t) ==
    /\ At(t, "SwapIn", "add")
    /\ AddActiveSwap(Id[th[t].m], th[t].m)
    /\ Goto(t, "data")
    /\ UNCHANGED <<ident, Current, Data, mutex, store, outer>>

SwapIn_Data(t) ==
    /\ At(t, "SwapIn", "data")
    /\ LET d == [NewSwapData(SWAPTYPE_IN, th[t].peer) EXCEPT
                    !.SwapInRequest = <<RequestFor(th[t].id, th[t].arg, th[t].scid)>>]
       IN  \/ /\ WriteData(t, [d EXCEPT !.NextMessageType = "swapinrequest"])
              /\ Goto(t, "lock")
           \/ /\ WriteData(t, d)
              /\ Ret(t, ErrMarshal)

SwapIn_SendEvent(t) ==
    /\ At(t, "SwapIn", "run")
    /\ SendEventThen(t, Event_SwapInSender_OnSwapInRequested)

SwapIn(t) ==
    \/ SwapIn_Start(t)
    \/ SwapIn_Add(t)
    \/ SwapIn_Data(t)
    \/ SwapIn_SendEvent(t)

\* ------------------------------------------------ OnSwapInRequestReceived

\* the CancelMessage{SwapId, Message} a request handler answers with
CancelTo(peer, swapId) == [to |-> peer, type |-> "canceled", SwapId |-> swapId]

\* `msgBytes, msgType, err := MarshalPeerswapMessage(&CancelMessage{...}); if
\* err != nil { return err }; return messenger.SendMessage(peerId, ...)`
ReplyCancel(t) ==
    \/ /\ Ret(t, ErrMarshal)
       /\ UNCHANGED outbox
    \/ /\ Ret(t, ErrSendFailed)
       /\ UNCHANGED outbox
    \/ /\ Ret(t, nil)
       /\ outbox' = outbox \cup {CancelTo(th[t].peer, th[t].id)}

\* The admission check, message.Validate() and newSwapInReceiverFSM.  An
\* invalid request is answered with a Cancel message and the result of
\* SendMessage is returned.
OnSwapInRequestReceived_Start(t) ==
    /\ At(t, "OnSwapInRequestReceived", "start")
    /\ RegistryUnlocked
    /\ IF hasActiveSwapOnChannel(th[t].scid)
         THEN /\ Ret(t, ErrActiveSwapOnChannel)
              /\ UNCHANGED ident
              /\ UNCHANGED outbox
         ELSE IF ~th[t].valid
         THEN /\ ReplyCancel(t)
              /\ UNCHANGED ident
         ELSE /\ nAlloc < MaxMachines
              /\ NewFSM(nAlloc + 1, th[t].id, SWAPTYPE_IN, SWAPROLE_RECEIVER,
                        SwapInReceiverStates, {"OnSwapInRequestReceived"})
              /\ SetFrame(t, [th[t] EXCEPT !.pc = "add", !.m = nAlloc + 1])
              /\ UNCHANGED outbox
    /\ UNCHANGED <<activeSwaps, Current, Data, mutex, store, budget, config, snap, rw>>

OnSwapInRequestReceived_Add(t) ==
    /\ At(t, "OnSwapInRequestReceived", "add")
    /\ AddActiveSwap(th[t].id, th[t].m)
    /\ Goto(t, "data")
    /\ UNCHANGED <<ident, Current, Data, mutex, store, outer>>

\* swap.Data = NewSwapDataFromRequest(id, peerId, SWAPTYPE_OUT).WithSwapInMessage(message)
OnSwapInRequestReceived_Data(t) ==
    /\ At(t, "OnSwapInRequestReceived", "data")
    /\ WriteData(t, [NewSwapDataFromRequest(th[t].peer, SWAPTYPE_OUT) EXCEPT
                        !.SwapInRequest =
                            <<Request(th[t].id, "", GetNetwork, th[t].scid)>>])
    /\ Goto(t, "lock")

\* `done, err := swap.SendEvent(...); if done { remove }; return err`
OnSwapInRequestReceived_SendEvent(t) ==
    /\ At(t, "OnSwapInRequestReceived", "run")
    /\ \E outcome \in Outcomes :
         LET r == SendEventResult(Current[th[t].m],
                                  Event_SwapInReceiver_OnRequestReceived, outcome)
         IN  /\ ApplyResult(t, r)
             /\ IF r.done THEN Goto(t, "remove") ELSE Ret(t, r.err)
    /\ UNCHANGED activeSwaps

OnSwapInRequestReceived(t) ==
    \/ OnSwapInRequestReceived_Start(t)
    \/ OnSwapInRequestReceived_Add(t)
    \/ OnSwapInRequestReceived_Data(t)
    \/ OnSwapInRequestReceived_SendEvent(t)

\* ----------------------------------------------- OnSwapOutRequestReceived

\* Here the data is set on the new machine before it is registered.
OnSwapOutRequestReceived_Start(t) ==
    /\ At(t, "OnSwapOutRequestReceived", "start")
    /\ RegistryUnlocked
    /\ IF hasActiveSwapOnChannel(th[t].scid)
         THEN /\ Ret(t, ErrActiveSwapOnChannel)
              /\ UNCHANGED <<ident, Data>>
              /\ UNCHANGED outbox
         ELSE IF ~th[t].valid
         THEN /\ ReplyCancel(t)
              /\ UNCHANGED <<ident, Data>>
         ELSE /\ nAlloc < MaxMachines
              /\ NewFSM(nAlloc + 1, th[t].id, SWAPTYPE_OUT, SWAPROLE_RECEIVER,
                        SwapOutReceiverStates, {"OnSwapOutRequestReceived"})
              /\ Data' = [Data EXCEPT ![nAlloc + 1] =
                            [NewSwapDataFromRequest(th[t].peer, SWAPTYPE_OUT) EXCEPT
                               !.SwapOutRequest =
                                   <<Request(th[t].id, "", GetNetwork, th[t].scid)>>]]
              /\ SetFrame(t, [th[t] EXCEPT !.pc = "add", !.m = nAlloc + 1])
              /\ UNCHANGED outbox
    /\ UNCHANGED <<activeSwaps, Current, mutex, store, budget, config, snap, rw>>

OnSwapOutRequestReceived_Add(t) ==
    /\ At(t, "OnSwapOutRequestReceived", "add")
    /\ AddActiveSwap(th[t].id, th[t].m)
    /\ Goto(t, "lock")
    /\ UNCHANGED <<ident, Current, Data, mutex, store, outer>>

OnSwapOutRequestReceived_SendEvent(t) ==
    /\ At(t, "OnSwapOutRequestReceived", "run")
    /\ SendEventThen(t, Event_OnSwapOutRequestReceived)

OnSwapOutRequestReceived(t) ==
    \/ OnSwapOutRequestReceived_Start(t)
    \/ OnSwapOutRequestReceived_Add(t)
    \/ OnSwapOutRequestReceived_SendEvent(t)

\* -------------------------------------------------------- OnMessageReceived

\* message type -> the handler of its case
HandlerOf(msgType) ==
    CASE msgType = "swapoutrequest"       -> "OnSwapOutRequestReceived"
      [] msgType = "swapinrequest"        -> "OnSwapInRequestReceived"
      [] msgType = "swapoutagreement"     -> "OnSwapOutAgreementReceived"
      [] msgType = "swapinagreement"      -> "OnSwapInAgreementReceived"
      [] msgType = "openingtxbroadcasted" -> "OnTxOpenedMessage"
      [] msgType = "canceled"             -> "OnCancelReceived"
      [] msgType = "coopclose"            -> "OnCoopCloseReceived"

\* `len(payload) > 100*1024`
PayloadTooLarge_AtLimit(n) == n >= 100 * 1024
PayloadTooLarge(n) == n > 100 * 1024

\* a message of an unknown type: `default: return nil`
OnMessageReceived_Unknown(t) ==
    /\ At(t, "OnMessageReceived", "start")
    /\ ~PayloadTooLarge(th[t].len)
    /\ th[t].arg = "unknown"
    /\ Ret(t, nil)
    /\ ReadOnly

\* the returns ahead of the switch (the size check first, then
\* HexStringToMessageType) and the failed json.Unmarshal of a case
OnMessageReceived_Refused(t) ==
    /\ At(t, "OnMessageReceived", "start")
    /\ PayloadTooLarge(th[t].len) \/ th[t].arg \in Refusals
    /\ Ret(t, CASE PayloadTooLarge(th[t].len) -> ErrPayloadTooLarge
                 [] th[t].arg = "badtype"     -> ErrUnknownSwapMessageType
                 [] th[t].arg = "badjson"     -> ErrUnmarshal)
    /\ ReadOnly

\* the two request cases: no sender check, straight to the request handler
OnMessageReceived_Request(t) ==
    /\ At(t, "OnMessageReceived", "start")
    /\ ~PayloadTooLarge(th[t].len)
    /\ th[t].arg \in RequestTypes
    /\ SetFrame(t, [th[t] EXCEPT !.op = HandlerOf(th[t].arg)])
    /\ ReadOnly

\* the five other cases: isMessageSenderExpectedPeer, then the handler
OnMessageReceived_Stage(t) ==
    /\ At(t, "OnMessageReceived", "start")
    /\ ~PayloadTooLarge(th[t].len)
    /\ th[t].arg \notin RequestTypes \cup {"unknown"} \cup Refusals
    /\ RegistryUnlocked
    /\ IF GetActiveSwap(th[t].id) = NoSwap
         THEN Ret(t, ErrSwapDoesNotExist)
       ELSE IF ~isMessageSenderExpectedPeer(th[t].peer, th[t].id)
         THEN Ret(t, ErrReceivedMessageFromUnexpectedPeer)
       ELSE SetFrame(t, [th[t] EXCEPT !.op = HandlerOf(th[t].arg), !.pc = "get"])
    /\ ReadOnly

OnMessageReceived(t) ==
    \/ OnMessageReceived_Refused(t)
    \/ OnMessageReceived_Unknown(t)
    \/ OnMessageReceived_Request(t)
    \/ OnMessageReceived_Stage(t)

\* ----------------------------------------------------- HandleInvalidMessage

\* swapFsm.Data.CancelMessage = "invalid request ..."
HandleInvalidMessage_Write(t) ==
    /\ At(t, "HandleInvalidMessage", "write")
    /\ WriteData(t, [Data[th[t].m] EXCEPT !.CancelMessage = "invalid request"])
    /\ Goto(t, "lock")

HandleInvalidMessage_SendEvent(t) ==
    /\ At(t, "HandleInvalidMessage", "run")
    /\ SendEventThen(t, Event_OnInvalid_Message)

HandleInvalidMessage(t) ==
    \/ HandleInvalidMessage_Write(t)
    \/ HandleInvalidMessage_SendEvent(t)

\* GetActiveSwap without message.Validate()
GetAndValidate_Unvalidated(t) == Lookup(t, "write")

\* GetActiveSwap, then message.Validate(): an invalid message hands the
\* machine to HandleInvalidMessage, a valid one goes on in its handler.
GetAndValidate(t) ==
    /\ RegistryUnlocked
    /\ IF GetActiveSwap(th[t].id) = NoSwap THEN Ret(t, ErrSwapDoesNotExist)
       ELSE IF ~th[t].valid
         THEN SetFrame(t, [th[t] EXCEPT !.op = "HandleInvalidMessage", !.pc = "write",
                                        !.m = GetActiveSwap(th[t].id)])
       ELSE Lookup(t, "write")

\* ----------------------------------------------- OnSwapOutAgreementReceived

OnSwapOutAgreementReceived_Get(t) ==
    /\ At(t, "OnSwapOutAgreementReceived", "get")
    /\ GetAndValidate(t)
    /\ ReadOnly

\* swap.Data.SwapOutAgreement = message
OnSwapOutAgreementReceived_Write(t) ==
    /\ At(t, "OnSwapOutAgreementReceived", "write")
    /\ WriteData(t, [Data[th[t].m] EXCEPT !.SwapOutAgreement = <<[SwapId |-> th[t].id]>>])
    /\ Goto(t, "lock")

OnSwapOutAgreementReceived_SendEvent(t) ==
    /\ At(t, "OnSwapOutAgreementReceived", "run")
    /\ SendEventThen(t, Event_OnFeeInvoiceReceived)

OnSwapOutAgreementReceived(t) ==
    \/ OnSwapOutAgreementReceived_Get(t)
    \/ OnSwapOutAgreementReceived_Write(t)
    \/ OnSwapOutAgreementReceived_SendEvent(t)

\* ------------------------------------------------ OnSwapInAgreementReceived

OnSwapInAgreementReceived_Get(t) ==
    /\ At(t, "OnSwapInAgreementReceived", "get")
    /\ Lookup(t, "write")
    /\ ReadOnly

\* invalid: swap.Data.CancelMessage = ...; valid: swap.Data.SwapInAgreement = msg
OnSwapInAgreementReceived_Write(t) ==
    /\ At(t, "OnSwapInAgreementReceived", "write")
    /\ WriteData(t, IF th[t].valid
                      THEN [Data[th[t].m] EXCEPT !.SwapInAgreement = <<[SwapId |-> th[t].id]>>]
                      ELSE [Data[th[t].m] EXCEPT !.CancelMessage = "invalid request"])
    /\ Goto(t, "lock")

OnSwapInAgreementReceived_SendEvent(t) ==
    /\ At(t, "OnSwapInAgreementReceived", "run")
    /\ SendEventThen(t, IF th[t].valid THEN Event_SwapInSender_OnAgreementReceived
                                       ELSE Event_OnInvalid_Message)

OnSwapInAgreementReceived(t) ==
    \/ OnSwapInAgreementReceived_Get(t)
    \/ OnSwapInAgreementReceived_Write(t)
    \/ OnSwapInAgreementReceived_SendEvent(t)

\* -------------------------------------------------------- OnTxOpenedMessage

OnTxOpenedMessage_Get(t) ==
    /\ At(t, "OnTxOpenedMessage", "get")
    /\ GetAndValidate(t)
    /\ ReadOnly

\* swap.Data.OpeningTxBroadcasted = message
OnTxOpenedMessage_Write(t) ==
    /\ At(t, "OnTxOpenedMessage", "write")
    /\ WriteData(t, [Data[th[t].m] EXCEPT !.OpeningTxBroadcasted = <<[SwapId |-> th[t].id]>>])
    /\ Goto(t, "lock")

OnTxOpenedMessage_SendEvent(t) ==
    /\ At(t, "OnTxOpenedMessage", "run")
    /\ SendEventThen(t, Event_OnTxOpenedMessage)

OnTxOpenedMessage(t) ==
    \/ OnTxOpenedMessage_Get(t)
    \/ OnTxOpenedMessage_Write(t)
    \/ OnTxOpenedMessage_SendEvent(t)

\* --------------------------------------------------------- OnCancelReceived

OnCancelReceived_Get(t) ==
    /\ At(t, "OnCancelReceived", "get")
    /\ Lookup(t, "write")
    /\ ReadOnly

\* swap.Data.Cancel = cancelMsg
OnCancelReceived_Write(t) ==
    /\ At(t, "OnCancelReceived", "write")
    /\ WriteData(t, [Data[th[t].m] EXCEPT !.Cancel = <<[SwapId |-> th[t].id]>>])
    /\ Goto(t, "lock")

OnCancelReceived_SendEvent(t) ==
    /\ At(t, "OnCancelReceived", "run")
    /\ SendEventThen(t, Event_OnCancelReceived)

OnCancelReceived(t) ==
    \/ OnCancelReceived_Get(t)
    \/ OnCancelReceived_Write(t)
    \/ OnCancelReceived_SendEvent(t)

\* ------------------------------------------------------ OnCoopCloseReceived

OnCoopCloseReceived_Get(t) ==
    /\ At(t, "OnCoopCloseReceived", "get")
    /\ GetAndValidate(t)
    /\ ReadOnly

\* swap.Data.CoopClose = coopCloseMessage
OnCoopCloseReceived_Write(t) ==
    /\ At(t, "OnCoopCloseReceived", "write")
    /\ WriteData(t, [Data[th[t].m] EXCEPT !.CoopClose = <<[SwapId |-> th[t].id]>>])
    /\ Goto(t, "lock")

OnCoopCloseReceived_SendEvent(t) ==
    /\ At(t, "OnCoopCloseReceived", "run")
    /\ SendEventThen(t, Event_OnCoopCloseReceived)

OnCoopCloseReceived(t) ==
    \/ OnCoopCloseReceived_Get(t)
    \/ OnCoopCloseReceived_Write(t)
    \/ OnCoopCloseReceived_SendEvent(t)

\* ------------------------------------------------------------ OnTxConfirmed

OnTxConfirmed_Get(t) ==
    /\ At(t, "OnTxConfirmed", "start")
    /\ LookupData(t, "write")
    /\ ReadOnly

\* swap.Data.OpeningTxHex = txHex
OnTxConfirmed_Write(t) ==
    /\ At(t, "OnTxConfirmed", "write")
    /\ WriteData(t, [Data[th[t].m] EXCEPT !.OpeningTxHex = th[t].arg])
    /\ Goto(t, "lock")

OnTxConfirmed_SendEvent(t) ==
    /\ At(t, "OnTxConfirmed", "run")
    /\ SendEventSwallow(t, Event_OnTxConfirmed)

OnTxConfirmed(t) ==
    \/ OnTxConfirmed_Get(t)
    \/ OnTxConfirmed_Write(t)
    \/ OnTxConfirmed_SendEvent(t)

\* -------------------------------------------------------------- OnCsvPassed

OnCsvPassed_Get(t) ==
    /\ At(t, "OnCsvPassed", "start")
    /\ LookupData(t, "lock")
    /\ ReadOnly

OnCsvPassed_SendEvent(t) ==
    /\ At(t, "OnCsvPassed", "run")
    /\ SendEventSwallow(t, Event_OnCsvPassed)

OnCsvPassed(t) ==
    \/ OnCsvPassed_Get(t)
    \/ OnCsvPassed_SendEvent(t)

\* ------------------------------------------------------ SenderOnTxConfirmed

SenderOnTxConfirmed_Get(t) ==
    /\ At(t, "SenderOnTxConfirmed", "start")
    /\ Lookup(t, "lock")
    /\ ReadOnly

\* `if err != nil { return err }; if done { remove }; remove; return nil`
SenderOnTxConfirmed_SendEvent(t) ==
    /\ At(t, "SenderOnTxConfirmed", "run")
    /\ \E outcome \in Outcomes :
         LET r == SendEventResult(Current[th[t].m], Event_OnTxConfirmed, outcome)
         IN  /\ ApplyResult(t, r)
             /\ IF r.err # nil THEN Ret(t, r.err)
                ELSE IF r.done THEN Goto(t, "remove1")
                ELSE Goto(t, "remove2")
    /\ UNCHANGED activeSwaps

\* the two RemoveActiveSwap calls: the first under `if done`, the second always
SenderOnTxConfirmed_Remove(t) ==
    /\ th[t].op = "SenderOnTxConfirmed"
    /\ th[t].pc \in {"remove1", "remove2"}
    /\ RemoveActiveSwap(Id[th[t].m])
    /\ IF th[t].pc = "remove1" THEN Goto(t, "remove2") ELSE Ret(t, nil)
    /\ UNCHANGED <<ident, Current, Data, mutex, store, outer>>

SenderOnTxConfirmed(t) ==
    \/ SenderOnTxConfirmed_Get(t)
    \/ SenderOnTxConfirmed_SendEvent(t)
    \/ SenderOnTxConfirmed_Remove(t)

\* ---------------------------------------------------------------- OnPayment

\* strings.SplitN(description, PaymentLabelSeparator, 2): parts[0] when there
\* are two parts, "" otherwise
getPaymentLabel(description) ==
    LET seps == {k \in 1 .. Len(description) : description[k] = PaymentLabelSeparator}
    IN  IF seps = {} THEN <<>>
        ELSE SubSeq(description, 1, (CHOOSE k \in seps : \A j \in seps : k <= j) - 1)

\* description[n:]
SliceFrom(description, n) == SubSeq(description, n + 1, Len(description))

\* ParseSwapIdFromString: the swap id of the text, "" for the error
ParseSwapIdFromString(text) ==
    IF \E i \in SwapIds : HexOf(i) = text
      THEN CHOOSE i \in SwapIds : HexOf(i) = text
      ELSE ""

\* the cases of the switch: the handler of a label and where the id starts
PaymentHandler_Swapped(label) ==
    CASE label = Fee   -> [op |-> "OnClaimInvoicePaid", from |-> 4]
      [] label = Claim -> [op |-> "OnFeeInvoicePaid", from |-> 6]
      [] OTHER         -> [op |-> "", from |-> 0]
PaymentHandler(label) ==
    CASE label = Fee   -> [op |-> "OnFeeInvoicePaid", from |-> 4]
      [] label = Claim -> [op |-> "OnClaimInvoicePaid", from |-> 6]
      [] OTHER         -> [op |-> "", from |-> 0]

\* getPaymentLabel(description) of "<label>_<swapid>" selects the handler;
\* any other label is ignored, and so is an id that does not parse.  OnPayment
\* logs what the handler returns.
OnPayment(t) ==
    /\ At(t, "OnPayment", "start")
    /\ LET h  == PaymentHandler(getPaymentLabel(th[t].desc))
           id == ParseSwapIdFromString(SliceFrom(th[t].desc, h.from))
       IN  IF h.op = "" \/ id = ""
             THEN Ret(t, nil)
             ELSE SetFrame(t, [th[t] EXCEPT !.op = h.op, !.id = id])
    /\ ReadOnly

OnFeeInvoicePaid_Get(t) ==
    /\ At(t, "OnFeeInvoicePaid", "start")
    /\ Lookup(t, "lock")
    /\ ReadOnly

OnFeeInvoicePaid_SendEvent(t) ==
    /\ At(t, "OnFeeInvoicePaid", "run")
    /\ SendEventThen(t, Event_OnFeeInvoicePaid)

OnFeeInvoicePaid(t) ==
    \/ OnFeeInvoicePaid_Get(t)
    \/ OnFeeInvoicePaid_SendEvent(t)

OnClaimInvoicePaid_Get(t) ==
    /\ At(t, "OnClaimInvoicePaid", "start")
    /\ Lookup(t, "lock")
    /\ ReadOnly

OnClaimInvoicePaid_SendEvent(t) ==
    /\ At(t, "OnClaimInvoicePaid", "run")
    /\ SendEventThen(t, Event_OnClaimInvoicePaid)

OnClaimInvoicePaid(t) ==
    \/ OnClaimInvoicePaid_Get(t)
    \/ OnClaimInvoicePaid_SendEvent(t)

\* ---------------------------------------------------- createTimeoutCallback

\* the callback is a func(): a missing swap is logged, nothing is returned
TimeoutCallback_Get(t) ==
    /\ At(t, "TimeoutCallback", "start")
    /\ RegistryUnlocked
    /\ IF GetActiveSwap(th[t].id) = NoSwap
         THEN Ret(t, nil)
         ELSE SetFrame(t, [th[t] EXCEPT !.pc = "write", !.m = GetActiveSwap(th[t].id)])
    /\ ReadOnly

\* swap.Data.toCancel = nil
TimeoutCallback_Write(t) ==
    /\ At(t, "TimeoutCallback", "write")
    /\ WriteData(t, [Data[th[t].m] EXCEPT !.toCancel = FALSE])
    /\ Goto(t, "lock")

\* an error of SendEvent is logged, nothing is returned
TimeoutCallback_SendEvent(t) ==
    /\ At(t, "TimeoutCallback", "run")
    /\ \E outcome \in Outcomes :
         LET r == SendEventResult(Current[th[t].m], Event_OnTimeout, outcome)
         IN  /\ ApplyResult(t, r)
             /\ IF r.err = nil /\ r.done THEN Goto(t, "remove") ELSE Ret(t, nil)
    /\ UNCHANGED activeSwaps

TimeoutCallback(t) ==
    \/ TimeoutCallback_Get(t)
    \/ TimeoutCallback_Write(t)
    \/ TimeoutCallback_SendEvent(t)

\* -------------------------------------------------------- ResendLastMessage

ResendLastMessage_Get(t) ==
    /\ At(t, "ResendLastMessage", "start")
    /\ Lookup(t, "exec")
    /\ ReadOnly

\* SendMessageAction.Execute(services, swap.Data) outside SendEvent: a failed
\* send is recorded in swap.Data.LastErr and returned.
ResendLastMessage_Execute(t) ==
    /\ At(t, "ResendLastMessage", "exec")
    /\ \E r \in {nil, ErrSendFailed} :
         /\ WriteData(t, IF r = nil THEN Data[th[t].m]
                         ELSE [Data[th[t].m] EXCEPT !.LastErr = r])
         /\ Ret(t, r)

ResendLastMessage(t) ==
    \/ ResendLastMessage_Get(t)
    \/ ResendLastMessage_Execute(t)

\* ------------------------------------------------------------- RecoverSwaps

\* swap.IsFinished() of a persisted swap
IsFinished(p) == p.Current \in TerminalStates

\* the ...FromStore dispatch keyed on SwapData.Type in place of swap.Type
FromStore_ByDataType(p) ==
    CASE p.Data.Type = SWAPTYPE_IN  /\ p.Role = SWAPROLE_SENDER   -> SwapInSenderStates
      [] p.Data.Type = SWAPTYPE_IN  /\ p.Role = SWAPROLE_RECEIVER -> SwapInReceiverStates
      [] p.Data.Type = SWAPTYPE_OUT /\ p.Role = SWAPROLE_SENDER   -> SwapOutSenderStates
      [] p.Data.Type = SWAPTYPE_OUT /\ p.Role = SWAPROLE_RECEIVER -> SwapOutReceiverStates
      [] OTHER -> ""

\* the if / else-if chain on (swap.Type, swap.Role): the transition table the
\* chosen ...FromStore constructor gives the machine; a swap no branch takes
\* stays as ListAll loaded it, without a table
FromStore(p) ==
    CASE p.Type = SWAPTYPE_IN  /\ p.Role = SWAPROLE_SENDER   -> SwapInSenderStates
      [] p.Type = SWAPTYPE_IN  /\ p.Role = SWAPROLE_RECEIVER -> SwapInReceiverStates
      [] p.Type = SWAPTYPE_OUT /\ p.Role = SWAPROLE_SENDER   -> SwapOutSenderStates
      [] p.Type = SWAPTYPE_OUT /\ p.Role = SWAPROLE_RECEIVER -> SwapOutReceiverStates
      [] OTHER -> ""

\* the stored swaps of `swaps` that RecoverSwaps rebuilds, from position k on
Unfinished(swaps, k) ==
    {i \in k .. Len(SwapIdSeq) :
        swaps[SwapIdSeq[i]] # <<>> /\ ~IsFinished(swaps[SwapIdSeq[i]][1])}

Min(S) == CHOOSE x \in S : \A y \in S : x <= y

\* swaps, err := swapStore.ListAll(); if err != nil { return err }
RecoverSwaps_ListAll(t) ==
    /\ At(t, "RecoverSwaps", "start")
    /\ IF th[t].env["ListAll"] = "ok"
         THEN SetFrame(t, [th[t] EXCEPT !.pc = "next", !.swaps = store, !.k = 1])
         ELSE Ret(t, ErrFatal)
    /\ ReadOnly

\* the loop head: skip the finished swaps; rebuild the next unfinished one
\* with the ...FromStore constructor of its (Type, Role) and register it
RecoverSwaps_Next(t) ==
    /\ At(t, "RecoverSwaps", "next")
    /\ LET left == Unfinished(th[t].swaps, th[t].k)
       IN  IF left = {}
             THEN /\ Ret(t, nil)
                  /\ UNCHANGED <<activeSwaps, ident, Current, Data, rw>>
             ELSE LET i == Min(left)
                      swapId == SwapIdSeq[i]
                      p == th[t].swaps[swapId][1]
                      m == nAlloc + 1
                  IN  /\ nAlloc < MaxMachines
                      /\ NewFSM(m, swapId, p.Type, p.Role, FromStore(p), {})
                      /\ Current' = [Current EXCEPT ![m] = p.Current]
                      /\ Data' = [Data EXCEPT ![m] = p.Data]
                      /\ AddActiveSwap(swapId, m)
                      /\ SetFrame(t, [th[t] EXCEPT !.pc = "lock", !.k = i + 1,
                                                   !.id = swapId, !.m = m])
    /\ UNCHANGED <<mutex, store, outer>>

\* `done, err := swap.Recover(); if err != nil { return err }; if done { remove }`
RecoverSwaps_Recover(t) ==
    /\ At(t, "RecoverSwaps", "run")
    /\ LET r == RecoverResult(Current[th[t].m], th[t].env[th[t].id])
       IN  /\ ApplyResult(t, r)
           /\ IF r.err # nil THEN Ret(t, r.err)
              ELSE IF r.done THEN Goto(t, "recremove")
              ELSE Goto(t, "next")
    /\ UNCHANGED activeSwaps

RecoverSwaps_Remove(t) ==
    /\ At(t, "RecoverSwaps", "recremove")
    /\ RemoveActiveSwap(Id[th[t].m])
    /\ Goto(t, "next")
    /\ UNCHANGED <<ident, Current, Data, mutex, store, outer>>

RecoverSwaps(t) ==
    \/ RecoverSwaps_ListAll(t)
    \/ RecoverSwaps_Next(t)
    \/ RecoverSwaps_Recover(t)
    \/ RecoverSwaps_Remove(t)

\* ------------------------------------------------------------------ spec

Next ==
    \E t \in Threads :
        \/ Call(t)
        \/ SwapOut(t)
        \/ SwapIn(t)
        \/ OnMessageReceived(t)
        \/ OnSwapOutRequestReceived(t)
        \/ OnSwapInRequestReceived(t)
        \/ OnSwapOutAgreementReceived(t)
        \/ OnSwapInAgreementReceived(t)
        \/ OnTxOpenedMessage(t)
        \/ OnCancelReceived(t)
        \/ OnCoopCloseReceived(t)
        \/ HandleInvalidMessage(t)
        \/ OnTxConfirmed(t)
        \/ OnCsvPassed(t)
        \/ SenderOnTxConfirmed(t)
        \/ OnPayment(t)
        \/ OnFeeInvoicePaid(t)
        \/ OnClaimInvoicePaid(t)
        \/ TimeoutCallback(t)
        \/ ResendLastMessage(t)
        \/ RecoverSwaps(t)
        \/ SendEvent_Lock(t)
        \/ RemoveDone(t)

Spec == Init /\ [][Next]_vars

\* ------------------------------------------------- a restart of the daemon

\* Entry-point calls the daemon serves before it restarts.
MaxRestartCalls == 3

\* the thread that serves the calls of this run one after the other
Daemon == "t1"

\* the swaps registered
ActiveIds == {i \in SwapIds : activeSwaps[i] # NoSwap}

\* the calls that create swaps, and the timeout that cancels one
CreateFrames ==
         UserFrames(UserChains)
    \cup {[CallFrame("OnMessageReceived") EXCEPT
              !.arg = ty, !.peer = p, !.id = i, !.scid = c, !.valid = v] :
             ty \in RequestTypes, p \in UserPeers, i \in NamedIds, c \in Channels,
             v \in BOOLEAN}
    \cup {[CallFrame("TimeoutCallback") EXCEPT !.id = i] : i \in SwapIds}

\* what the collaborators may answer during a run over a store of any content
AllRecoverEnvs ==
    {[k \in SwapIds \cup {"ListAll"} |-> IF k = "ListAll" THEN "ok" ELSE f[k]] :
        f \in [SwapIds -> Outcomes]}
    \cup {[AllOk EXCEPT !["ListAll"] = "storeFails"]}

CreateCall(t) ==
    /\ th[t].pc = "idle"
    /\ recovers = 0
    /\ calls < MaxRestartCalls
    /\ \E f \in CreateFrames : SetFrame(t, f)
    /\ calls' = calls + 1
    /\ UNCHANGED <<activeSwaps, ident, Current, Data, mutex, store, recovers, config,
                   outbox, snap, rw>>

\* The process exits with no call in flight and is started again: the
\* registry and the machine objects are gone, the store is what it was;
\* NewSwapService, then RecoverSwaps.
Restart(t) ==
    /\ AllReturned
    /\ recovers = 0
    /\ \E e \in AllRecoverEnvs :
         /\ SetFrame(t, [CallFrame("RecoverSwaps") EXCEPT !.env = e])
         /\ snap' = [env |-> e, again |-> e, store |-> store, active |-> {}]
    /\ activeSwaps' = [i \in SwapIds |-> NoSwap]
    /\ nAlloc' = 0
    /\ Id' = [m \in Machines |-> ""]
    /\ Type' = [m \in Machines |-> ""]
    /\ Role' = [m \in Machines |-> ""]
    /\ States' = [m \in Machines |-> ""]
    /\ Current' = [m \in Machines |-> State_Created]
    /\ Data' = [m \in Machines |-> EmptyData]
    /\ mutex' = [m \in Machines |-> Free]
    /\ recovers' = 1
    /\ UNCHANGED <<Maker, store, calls, config, outbox, rw>>

\* RecoverSwaps called once more, right after the first run returned
RecoverAgain(t) ==
    /\ AllReturned
    /\ recovers = 1
    /\ \E e \in AllRecoverEnvs :
         /\ SetFrame(t, [CallFrame("RecoverSwaps") EXCEPT !.env = e])
         /\ snap' = [env |-> snap.env, again |-> e, store |-> store, active |-> ActiveIds]
    /\ recovers' = 2
    /\ UNCHANGED <<activeSwaps, ident, Current, Data, mutex, store, calls, config,
                   outbox, rw>>

NextRestart ==
    \E t \in {Daemon} :
        \/ CreateCall(t)
        \/ SwapOut(t)
        \/ SwapIn(t)
        \/ OnMessageReceived_Request(t)
        \/ OnSwapOutRequestReceived(t)
        \/ OnSwapInRequestReceived(t)
        \/ TimeoutCallback(t)
        \/ SendEvent_Lock(t)
        \/ RemoveDone(t)
        \/ Restart(t)
        \/ RecoverAgain(t)
        \/ RecoverSwaps(t)

InitRestart == InitWith(EmptyStore, TRUE, TRUE)

SpecRestart == InitRestart /\ [][NextRestart]_vars

\* ------------------------------------------------- the chains of a swap

\* SwapOut and SwapIn called with any chain name, on a node with any of the
\* two chains enabled
ChainCall(t) ==
    /\ th[t].pc = "idle"
    /\ calls < MaxCalls
    /\ \E f \in UserFrames(Chains) : SetFrame(t, f)
    /\ calls' = calls + 1
    /\ UNCHANGED <<activeSwaps, ident, Current, Data, mutex, store, recovers, config,
                   outbox, snap, rw>>

NextChain ==
    \E t \in {Daemon} :
        \/ ChainCall(t)
        \/ SwapOut(t)
        \/ SwapIn(t)
        \/ SendEvent_Lock(t)

InitChain == \E bitcoin \in BOOLEAN, liquid \in BOOLEAN : InitWith(EmptyStore, bitcoin, liquid)

SpecChain == InitChain /\ [][NextChain]_vars

\* ------------------------------------------------- the size of a payload

\* len(payload) of the messages the peers send: small, at the limit, above it
PayloadLengths == {1024, 100 * 1024, 100 * 1024 + 1}

\* the peers' messages, of every type and every length
MessageFrames ==
         {[CallFrame("OnMessageReceived") EXCEPT
              !.arg = ty, !.peer = p, !.id = i, !.scid = c, !.valid = v, !.len = n] :
             ty \in RequestTypes, p \in UserPeers, i \in NamedIds, c \in Channels,
             v \in BOOLEAN, n \in PayloadLengths}
    \cup {[CallFrame("OnMessageReceived") EXCEPT
              !.arg = ty, !.peer = p, !.id = i, !.valid = v, !.len = n] :
             ty \in {"openingtxbroadcasted", "canceled"} \cup {"unknown"} \cup Refusals,
             p \in UserPeers, i \in NamedIds, v \in BOOLEAN, n \in PayloadLengths}

PayloadCall(t) ==
    /\ th[t].pc = "idle"
    /\ calls < MaxCalls
    /\ \E f \in MessageFrames : SetFrame(t, f)
    /\ calls' = calls + 1
    /\ UNCHANGED <<activeSwaps, ident, Current, Data, mutex, store, recovers, config,
                   outbox, snap, rw>>

NextPayload ==
    \E t \in Threads :
        \/ PayloadCall(t)
        \/ OnMessageReceived(t)
        \/ OnSwapOutRequestReceived(t)
        \/ OnSwapInRequestReceived(t)
        \/ OnTxOpenedMessage(t)
        \/ OnCancelReceived(t)
        \/ HandleInvalidMessage(t)
        \/ SendEvent_Lock(t)
        \/ RemoveDone(t)

SpecPayload == InitRestart /\ [][NextPayload]_vars

\* ------------------------------------------------ the invoices that are paid

\* Entry-point calls of a run that is about payments.
MaxPaymentCalls == 5

\* well-formed descriptions of every swap id, and malformed ones: another
\* label, no separator, an id that does not parse, a label and nothing else
AllDescriptions ==
         {Described(l, i) : l \in {Fee, Claim, <<"t", "i", "p">>}, i \in SwapIds}
    \cup {Fee \o HexOf(i) : i \in NamedIds}
    \cup {Described(Claim, i) \o <<"z">> : i \in NamedIds}
    \cup {Fee \o <<PaymentLabelSeparator>>, Claim, <<>>}

\* the calls of the lightning client, and the calls that take a swap to the
\* payment of its invoices: the peer's request, its opening transaction and
\* the confirmation of that
PaymentFrames ==
         {[CallFrame("OnPayment") EXCEPT !.desc = d] : d \in AllDescriptions}
    \cup {[CallFrame("OnMessageReceived") EXCEPT
              !.arg = ty, !.peer = p, !.id = i, !.scid = c] :
             ty \in RequestTypes, p \in UserPeers, i \in SwapIds, c \in Channels}
    \cup {[CallFrame("OnMessageReceived") EXCEPT
              !.arg = "openingtxbroadcasted", !.peer = p, !.id = i] :
             p \in UserPeers, i \in NamedIds}
    \cup {[CallFrame("OnTxConfirmed") EXCEPT !.id = i, !.arg = tx] :
             i \in NamedIds, tx \in TxHexes}

PaymentCall(t) ==
    /\ th[t].pc = "idle"
    /\ calls < MaxPaymentCalls
    /\ \E f \in PaymentFrames : SetFrame(t, f)
    /\ calls' = calls + 1
    /\ UNCHANGED <<activeSwaps, ident, Current, Data, mutex, store, recovers, config,
                   outbox, snap, rw>>

NextPayment ==
    \E t \in {Daemon} :
        \/ PaymentCall(t)
        \/ OnMessageReceived_Request(t)
        \/ OnMessageReceived_Stage(t)
        \/ OnSwapOutRequestReceived(t)
        \/ OnSwapInRequestReceived(t)
        \/ OnTxOpenedMessage(t)
        \/ OnTxConfirmed(t)
        \/ OnPayment(t)
        \/ OnFeeInvoicePaid(t)
        \/ OnClaimInvoicePaid(t)
        \/ SendEvent_Lock(t)
        \/ RemoveDone(t)

SpecPayment == InitRestart /\ [][NextPayment]_vars

\* ------------------------------------------- callbacks on their own threads

\* the recovery when the daemon starts, and the calls of the chain watcher,
\* the timeout service and the messenger that meet on the recovered swap
LiveFrames ==
         {[CallFrame(op) EXCEPT !.id = i] :
             op \in {"OnCsvPassed", "TimeoutCallback"}, i \in NamedIds}
    \cup {[CallFrame("OnMessageReceived") EXCEPT !.arg = "canceled", !.peer = p, !.id = i] :
             p \in UserPeers, i \in NamedIds}
    \cup {[CallFrame("RecoverSwaps") EXCEPT !.env = e] : e \in RecoverEnvs}

LiveCall(t) ==
    /\ th[t].pc = "idle"
    /\ \A u \in Threads : th[u].op # "RecoverSwaps"
    /\ \E f \in LiveFrames :
         /\ SetFrame(t, f)
         /\ IF f.op = "RecoverSwaps"
              THEN recovers < MaxRecovers /\ calls = 0 /\ recovers' = recovers + 1 /\ calls' = calls
              ELSE calls < MaxCalls /\ calls' = calls + 1 /\ recovers' = recovers
    /\ UNCHANGED <<activeSwaps, ident, Current, Data, mutex, store, config, outbox, snap, rw>>

\* a step of the call thread t is in
Running(t) ==
    \/ OnMessageReceived_Stage(t)
    \/ OnCancelReceived(t)
    \/ OnCsvPassed(t)
    \/ TimeoutCallback(t)
    \/ RecoverSwaps(t)
    \/ SendEvent_Lock(t)
    \/ RemoveDone(t)

NextLive == \E t \in Threads : LiveCall(t) \/ Running(t)

\* every thread that can take a step of its call takes one in the end: the
\* scheduler starves no goroutine and the actions terminate
SpecLive == Init /\ [][NextLive]_vars /\ \A t \in Threads : WF_vars(Running(t))

\* ------------------------------------------------------------ properties

\* the swaps registered on channel c
ActiveOnChannel(c) ==
    {i \in SwapIds : activeSwaps[i] # NoSwap /\ GetScid(Data[activeSwaps[i]]) = c}

\* thread t takes the step, returning r from its call
Returns(t, r) == th'[t] = [IdleFrame EXCEPT !.ret = r]

\* thread t takes the step
Steps(t) == th'[t] # th[t]

\* C1: in every reachable state, under every interleaving of SwapOut, SwapIn
\* and the two inbound request handlers, activeSwaps holds at most one
\* machine per short-channel-id.
C1_OneMachinePerChannel ==
    \A c \in Channels : Cardinality(ActiveOnChannel(c)) <= 1

\* a registered, non-terminal swap sits on channel c
BusyChannel(c) ==
    \E i \in ActiveOnChannel(c) : Current[activeSwaps[i]] \notin TerminalStates

AdmissionOps == {"SwapOut", "SwapIn", "OnSwapOutRequestReceived", "OnSwapInRequestReceived"}

\* C2: a SwapOut, a SwapIn or an inbound request that names a channel with a
\* registered, non-terminal swap returns ErrActiveSwapOnChannel, allocates and
\* registers no machine, and leaves activeSwaps and every swap's data as they
\* were.
C2_BusyChannelRefused ==
    [][\A t \in Threads :
          (/\ th[t].op \in AdmissionOps
           /\ th[t].pc = "start"
           /\ BusyChannel(th[t].scid)
           /\ Steps(t))
          => /\ Returns(t, ErrActiveSwapOnChannel)
             /\ UNCHANGED <<activeSwaps, nAlloc, Data, Current, store>>]_vars

\* a call was refused on a channel that is still busy
C2_Witness ==
    \E t \in Threads, c \in Channels :
        /\ AllReturned
        /\ th[t].ret = ErrActiveSwapOnChannel
        /\ BusyChannel(c)

StageTypes == MessageTypes \ (RequestTypes \cup {"unknown"})

\* C3: OnMessageReceived with a message of one of the five non-request types
\* from a sender that is not the peerNodeId of the active swap it names
\* returns ErrReceivedMessageFromUnexpectedPeer and leaves the machines'
\* states, their data, their locks, the store and activeSwaps unchanged.
C3_UnexpectedPeerRejected ==
    [][\A t \in Threads :
          (/\ At(t, "OnMessageReceived", "start")
           /\ th[t].arg \in StageTypes
           /\ activeSwaps[th[t].id] # NoSwap
           /\ Data[activeSwaps[th[t].id]].PeerNodeId # th[t].peer
           /\ Steps(t))
          => /\ Returns(t, ErrReceivedMessageFromUnexpectedPeer)
             /\ UNCHANGED <<activeSwaps, Current, Data, mutex, store>>]_vars

\* a message was refused for its sender while the swap it named is registered
C3_Witness ==
    \E t \in Threads, i \in SwapIds :
        /\ AllReturned
        /\ th[t].ret = ErrReceivedMessageFromUnexpectedPeer
        /\ activeSwaps[i] # NoSwap
        /\ Data[activeSwaps[i]].PeerNodeId \in Peers

StageHandlers == {"OnSwapOutAgreementReceived", "OnSwapInAgreementReceived",
                  "OnTxOpenedMessage", "OnCancelReceived", "OnCoopCloseReceived",
                  "HandleInvalidMessage"}

\* C4: whenever the handler of a non-request message holds the machine it
\* looked up (to store the envelope in its data or to inject the event), the
\* sender of the message is the peerNodeId of that machine.
C4_SenderIsPeerOfMutatedMachine ==
    \A t \in Threads :
        (th[t].op \in StageHandlers /\ th[t].m # NoSwap)
        => Data[th[t].m].PeerNodeId = th[t].peer

\* C5: a step takes a swap out of activeSwaps only when its machine is in a
\* terminal state.
C5_RemovedOnlyWhenTerminal ==
    [][\A i \in SwapIds :
          (activeSwaps[i] # NoSwap /\ activeSwaps'[i] = NoSwap)
          => Current[activeSwaps[i]] \in TerminalStates]_vars

\* C6: once every call has returned, no machine in a terminal state is left
\* in activeSwaps.
C6_TerminalSwapsRemoved ==
    AllReturned
    => \A i \in SwapIds :
          activeSwaps[i] # NoSwap => Current[activeSwaps[i]] \notin TerminalStates

\* every call has returned and a machine that finished is out of the registry
C6_Witness ==
    /\ AllReturned
    /\ \E m \in 1 .. nAlloc :
          /\ Current[m] \in TerminalStates
          /\ \A i \in SwapIds : activeSwaps[i] # m

\* the event a chain callback injects
ChainEvent(op) ==
    IF op = "OnTxConfirmed" THEN Event_OnTxConfirmed ELSE Event_OnCsvPassed

\* C7: when the event of OnTxConfirmed or OnCsvPassed is rejected, the call
\* returns nil, the swap stays registered, and the machine's state and data
\* (openingTxHex included) are what the call found when it looked the swap up.
C7_RejectedChainEventIsNoOp ==
    [][\A t \in Threads :
          (/\ th[t].op \in {"OnTxConfirmed", "OnCsvPassed"}
           /\ th[t].pc = "run"
           /\ Transition(Current[th[t].m], ChainEvent(th[t].op)) = NoTransition
           /\ Steps(t))
          => /\ Returns(t, nil)
             /\ activeSwaps' = activeSwaps
             /\ Current'[th[t].m] = Current[th[t].m]
             /\ <<Data'[th[t].m]>> = th[t].old]_vars

EventOps == {"OnFeeInvoicePaid", "OnClaimInvoicePaid", "OnCancelReceived",
             "OnCoopCloseReceived", "OnTxOpenedMessage", "OnSwapOutAgreementReceived",
             "OnSwapInAgreementReceived", "HandleInvalidMessage", "TimeoutCallback"}

\* C8: no entry point that injects an event returns ErrEventRejected to its
\* caller: a rejected event is a successful no-op.
C8_RejectionNotReported ==
    [][\A t \in Threads :
          (th[t].op \in EventOps /\ th[t].pc # "idle" /\ th'[t].pc = "idle")
          => th'[t].ret # ErrEventRejected]_vars

\* the entry points that work on a machine some constructor made earlier
CallbackOps == EventOps \cup {"OnTxConfirmed", "OnCsvPassed", "SenderOnTxConfirmed",
                              "ResendLastMessage"}

\* C9: a callback changes the SwapData of a machine only while it holds that
\* machine's SendEvent lock.
C9_SingleWriter ==
    [][\A t \in Threads, m \in Machines :
          (th[t].op \in CallbackOps /\ Steps(t) /\ Data'[m] # Data[m])
          => mutex[m] = t]_vars

\* C10: the SwapData of a machine that has reached a terminal state never
\* changes again.
C10_TerminalDataImmutable ==
    [][\A m \in Machines :
          Current[m] \in TerminalStates => Data'[m] = Data[m]]_vars

\* the role machine each creating entry point builds
KindOf(maker) ==
    CASE maker = "SwapIn"                   -> SwapInSenderStates
      [] maker = "SwapOut"                  -> SwapOutSenderStates
      [] maker = "OnSwapOutRequestReceived" -> SwapOutReceiverStates
      [] maker = "OnSwapInRequestReceived"  -> SwapInReceiverStates

RequestHandlers == {"OnSwapOutRequestReceived", "OnSwapInRequestReceived"}

\* C13: when a request handler rejects an inbound request, because the
\* channel has an active swap or because the request is invalid, a Cancel
\* message with the request's swap id goes to the requesting peer (unless the
\* marshaller or the messenger reports a failure, which the handler returns),
\* and no machine is made or registered.
C13_RejectedRequestAnswered ==
    [][\A t \in Threads :
          (/\ th[t].op \in RequestHandlers
           /\ th[t].pc = "start"
           /\ (hasActiveSwapOnChannel(th[t].scid) \/ ~th[t].valid)
           /\ Steps(t))
          => /\ \/ CancelTo(th[t].peer, th[t].id) \in outbox'
                \/ th'[t].ret \in {ErrSendFailed, ErrMarshal}
             /\ UNCHANGED <<activeSwaps, nAlloc>>]_vars

\* the service was constructed with the chain enabled
ChainEnabled(chain) ==
    \/ chain = btc_chain /\ BitcoinEnabled
    \/ chain = l_btc_chain /\ LiquidEnabled

\* the requests SwapOut and SwapIn stored in their machines
StoredRequests ==
    UNION {{Data[m].SwapOutRequest[1] : x \in {1}} : 
              m \in {n \in 1 .. nAlloc : Data[n].SwapOutRequest # NoMsg}}
    \cup UNION {{Data[m].SwapInRequest[1] : x \in {1}} :
              m \in {n \in 1 .. nAlloc : Data[n].SwapInRequest # NoMsg}}

\* C14: every request SwapOut or SwapIn stored has exactly one of Asset and
\* Network non-empty, of a chain the service has enabled; and a call that
\* names a chain that is unknown or not enabled gets no further than its
\* first step: it makes no machine and stores no request.
C14_RequestNamesOneEnabledChain ==
    /\ \A r \in StoredRequests :
          /\ (r.Asset = "") # (r.Network = "")
          /\ r.Asset # "" => LiquidEnabled
          /\ r.Network # "" => BitcoinEnabled
    /\ \A t \in Threads :
          (th[t].op \in {"SwapOut", "SwapIn"} /\ ~ChainEnabled(th[t].arg))
          => th[t].pc = "start"

\* C15: OnMessageReceived called with a payload of more than 102400 bytes
\* returns "Payload is unexpectedly large" as its first step, whatever the
\* message type and content, and changes nothing; a payload of exactly
\* 102400 bytes is not refused with that error.
C15_OversizedPayloadRefusedFirst ==
    [][\A t \in Threads :
          (At(t, "OnMessageReceived", "start") /\ Steps(t))
          => /\ th[t].len > 102400
                => /\ th'[t].pc = "idle"
                   /\ th'[t].ret = "Payload is unexpectedly large"
                   /\ UNCHANGED <<activeSwaps, ident, Current, Data, mutex, store, outbox>>
             /\ th[t].len = 102400 => th'[t].ret # "Payload is unexpectedly large"]_vars

\* one request of 102401 bytes was refused, another of exactly 102400 bytes
\* went through the dispatcher and its machine is registered
C15_Witness ==
    \E t \in Threads, u \in Threads :
        /\ th[t].ret = "Payload is unexpectedly large"
        /\ th[u].op \in RequestHandlers
        /\ th[u].len = 102400
        /\ th[u].m # NoSwap
        /\ activeSwaps[th[u].id] = th[u].m

\* the callbacks that name a swap, and the handlers they pass the call on
\* to: OnFeeInvoicePaid and OnClaimInvoicePaid for OnPayment, the message
\* handlers for OnMessageReceived
Callbacks ==
    {"OnTxConfirmed", "OnCsvPassed", "OnFeeInvoicePaid", "OnClaimInvoicePaid",
     "TimeoutCallback", "ResendLastMessage"}
    \cup StageHandlers

\* thread t runs a callback, or the dispatch of a non-request message, and has
\* not got hold of a machine
InCallback(t) ==
    /\ th[t].pc # "idle"
    /\ th[t].m = NoSwap
    /\ \/ th[t].op \in Callbacks
       \/ th[t].op = "OnMessageReceived" /\ th[t].arg \in StageTypes

\* C16: a step of a callback, or of the handling of a non-request message,
\* that names a swap not in activeSwaps creates no machine, gets hold of no
\* machine to inject an event into, and leaves activeSwaps, every machine's
\* state, data and lock, the store and the messages sent unchanged; the call
\* returns.
C16_MissingSwapIsNoOp ==
    [][\A t \in Threads :
          (InCallback(t) /\ activeSwaps[th[t].id] = NoSwap /\ Steps(t))
          => /\ th'[t].m = NoSwap
             /\ th'[t].pc = "idle"
             /\ UNCHANGED <<activeSwaps, ident, Current, Data, mutex, store, outbox>>]_vars

\* a callback found its swap gone: the swap had a machine, is no longer
\* registered, and the call returned ErrSwapDoesNotExist
C16_Witness ==
    \E t \in Threads :
        /\ th[t].pc = "idle"
        /\ th[t].ret = ErrSwapDoesNotExist
        /\ \E m \in 1 .. nAlloc :
             /\ Current[m] \in TerminalStates
             /\ activeSwaps[Id[m]] = NoSwap
             /\ Id[m] \in NamedIds

\* the stage envelopes of a SwapData
Envelopes(d) ==
    <<d.SwapOutAgreement, d.SwapInAgreement, d.OpeningTxBroadcasted, d.CoopClose>>

\* thread t handles a stage message that its Validate() refuses
HandlesInvalid(t) ==
    /\ ~th[t].valid
    /\ th[t].pc # "idle"
    /\ th[t].op \in StageHandlers

\* C17: the handling of a stage message that fails validation, step by step.
\* Once the swap is found the call holds that machine and has changed
\* nothing; its write records a reason in CancelMessage and
\* nothing else; its SendEvent moves the machine as Event_OnInvalid_Message
\* moves it, and to the removal when the machine has become terminal; the
\* removal takes the swap out of activeSwaps.  No step of the call changes a
\* stage envelope of any machine.
C17_InvalidStageMessage ==
    [][\A t \in Threads :
          (HandlesInvalid(t) /\ Steps(t))
          => LET m == th[t].m
             IN  /\ \A n \in Machines : Envelopes(Data'[n]) = Envelopes(Data[n])
                 /\ (th[t].pc = "get" /\ activeSwaps[th[t].id] # NoSwap)
                    => /\ th'[t].pc = "write"
                       /\ th'[t].m = activeSwaps[th[t].id]
                       /\ UNCHANGED <<activeSwaps, Current, Data, mutex, store>>
                 /\ th[t].pc = "write"
                    => /\ Data'[m].CancelMessage # ""
                       /\ Data' = [Data EXCEPT ![m].CancelMessage = Data'[m].CancelMessage]
                       /\ UNCHANGED <<activeSwaps, Current, store>>
                 /\ th[t].pc = "run"
                    => /\ \E outcome \in Outcomes :
                            Current'[m] = SendEventResult(Current[m], Event_OnInvalid_Message,
                                                          outcome).state
                       /\ \A n \in Machines \ {m} : Current'[n] = Current[n]
                       /\ (Current'[m] \in TerminalStates /\ Current[m] \notin TerminalStates)
                          => th'[t].pc = "remove"
                       /\ UNCHANGED activeSwaps
                 /\ th[t].pc = "remove"
                    => /\ activeSwaps'[Id[m]] = NoSwap
                       /\ th'[t].pc = "idle"]_vars

\* an invalid stage message has cancelled its swap: the reason is recorded,
\* no envelope of the stage was stored, the machine is terminal and the
\* handler is about to remove it
C17_Witness ==
    \E t \in Threads :
        /\ HandlesInvalid(t)
        /\ th[t].pc = "remove"
        /\ Current[th[t].m] \in TerminalStates
        /\ Data[th[t].m].CancelMessage # ""
        /\ Envelopes(Data[th[t].m]) = <<NoMsg, NoMsg, NoMsg, NoMsg>>
        /\ activeSwaps[th[t].id] = th[t].m

\* the shared state OnPayment may not touch when it ignores a description
Shared == <<activeSwaps, ident, Current, Data, mutex, store, outbox>>

\* C18: OnPayment with the description "fee_<swapid>" goes on as
\* OnFeeInvoicePaid of that swap id, with "claim_<swapid>" as
\* OnClaimInvoicePaid of that swap id, and with any other description it
\* returns at once; none of these steps changes anything.  OnFeeInvoicePaid
\* takes the machine registered under its swap id and moves it, and no other
\* machine, as Event_OnFeeInvoicePaid moves it; OnClaimInvoicePaid likewise
\* with Event_OnClaimInvoicePaid.
C18_PaymentRoutedByLabel ==
    [][\A t \in Threads :
          Steps(t) =>
          /\ At(t, "OnPayment", "start")
             => /\ UNCHANGED Shared
                /\ IF \E i \in SwapIds : th[t].desc = Described(Fee, i)
                     THEN /\ th'[t].op = "OnFeeInvoicePaid"
                          /\ th[t].desc = Described(Fee, th'[t].id)
                   ELSE IF \E i \in SwapIds : th[t].desc = Described(Claim, i)
                     THEN /\ th'[t].op = "OnClaimInvoicePaid"
                          /\ th[t].desc = Described(Claim, th'[t].id)
                   ELSE th'[t].pc = "idle"
          /\ \A h \in {"OnFeeInvoicePaid", "OnClaimInvoicePaid"} :
                LET event == IF h = "OnFeeInvoicePaid" THEN Event_OnFeeInvoicePaid
                                                       ELSE Event_OnClaimInvoicePaid
                IN  /\ At(t, h, "start")
                       => /\ th'[t].m = activeSwaps[th[t].id]
                          /\ UNCHANGED Shared
                    /\ At(t, h, "run")
                       => /\ \E outcome \in Outcomes :
                               Current'[th[t].m] =
                                   SendEventResult(Current[th[t].m], event, outcome).state
                          /\ \A n \in Machines \ {th[t].m} :
                               Current'[n] = Current[n] /\ Data'[n] = Data[n]]_vars

\* the claim invoice of a swap is paid: the call holds the machine of the
\* swap the description names, and that machine, its fee invoice paid and its
\* opening transaction confirmed, awaits the payment
C18_Witness ==
    \E t \in Threads :
        /\ At(t, "OnClaimInvoicePaid", "run")
        /\ th[t].desc = Described(Claim, th[t].id)
        /\ th[t].m = activeSwaps[th[t].id]
        /\ Current[th[t].m] = State_AwaitingClaim
        /\ mutex[th[t].m] = t

\* C20: no step of the handling of an inbound SwapOutRequest or SwapInRequest
\* whose swap id is registered to a machine other than the handler's own
\* changes what activeSwaps holds under that id, or that machine's state or
\* data.
C20_RequestKeepsActiveSwap ==
    [][\A t \in Threads :
          (/\ th[t].op \in RequestHandlers
           /\ th[t].pc # "idle"
           /\ th[t].id \in SwapIds
           /\ activeSwaps[th[t].id] \notin {NoSwap, th[t].m}
           /\ Steps(t))
          => /\ activeSwaps'[th[t].id] = activeSwaps[th[t].id]
             /\ Current'[activeSwaps[th[t].id]] = Current[activeSwaps[th[t].id]]
             /\ Data'[activeSwaps[th[t].id]] = Data[activeSwaps[th[t].id]]]_vars

\* thread t is inside SendEvent or Recover of a machine, or waits to enter
InMachine(t) == th[t].pc \in {"lock", "run"}

\* C19: while a thread is in SendEvent or Recover, or waits for the machine's
\* mutex, the registry lock is free; whenever a call is in flight some thread
\* can take a step; and every call that has started returns.
C19_LocksOrderedCallsReturn ==
    /\ [](\A t \in Threads : InMachine(t) => rw = RWUnlocked)
    /\ []((\E t \in Threads : th[t].pc # "idle") => \E u \in Threads : ENABLED Running(u))
    /\ \A t \in Threads : (th[t].pc # "idle") ~> (th[t].pc = "idle")

\* two callbacks meet on one swap: one runs its event under the machine's
\* mutex, the other waits for the mutex
C19_Witness ==
    \E t \in Threads, u \in Threads :
        /\ t # u
        /\ th[t].pc = "run"
        /\ th[u].pc = "lock"
        /\ th[u].m = th[t].m
        /\ mutex[th[t].m] = t
        /\ rw = RWUnlocked

\* C21: when SwapOut or SwapIn returns an error after it has created its
\* machine, that machine is registered under no swap id in activeSwaps.
C21_FailedSwapLeavesNoMachine ==
    [][\A t \in Threads :
          (/\ th[t].op \in {"SwapOut", "SwapIn"}
           /\ th[t].m # NoSwap
           /\ th'[t].pc = "idle"
           /\ th'[t].ret # nil)
          => \A i \in SwapIds : activeSwaps'[i] # th[t].m]_vars

====
